---- MODULE Spec2Model ----
(***************************************************************************)
(* Analyzer (packages/ember-auto-import/ts/analyzer.ts): the broccoli      *)
(* plugin that keeps, per file of an input tree, the module imports found  *)
(* in it (paths), and a lazily flattened view of all of them (modules).    *)
(*                                                                         *)
(* A state is the Analyzer instance (previousTree, modules, paths, parse), *)
(* the package descriptor it was constructed with, the input and output    *)
(* directories, and the position of every build() call in flight.          *)
(***************************************************************************)
EXTENDS Integers, Sequences, FiniteSets, TLC

\* ------------------------------------------------------------------ bounds
\* Edits of the input tree made by the environment during one behaviour.
MaxEdits == 2
\* Calls of build() during one behaviour.
MaxBuilds == 2
\* Listings the environment stages, and calls of build(), during one behaviour
\* of the specification in which whole listings are staged between builds.
MaxStages == 3
MaxRebuilds == 3
\* Texts written to the one file of the specification that goes through every
\* text.
MaxRewrites == 2

\* ----------------------------------------------------------- source texts
\* The file contents the environment writes. Each is a program text; the
\* parsers below give its syntax tree.
SrcStatic == "import Foo from 'bar';"
\* tpl'...' stands for a template literal (the text between two backquotes).
SrcTwo == "import Foo from 'bar'; import(tpl'baz-${x}');"
SrcNone == "export { a };"
SrcSyntax == "import Foo from"
SrcUsage == "import(someFn());"
SrcMacroUsage == "import { importSync } from '@embroider/macros'; importSync(someFn());"
SrcFault == "/* text on which the parser fails with an internal error */"

Sources ==
    {SrcStatic, SrcTwo, SrcNone, SrcSyntax, SrcUsage, SrcMacroUsage, SrcFault}

\* More texts, for the extraction alone.
SrcPlainTemplate == "import(tpl'qux');"
SrcReexport == "export { x } from 'dep';"
SrcMacro == "import { importSync } from '@embroider/macros'; importSync('pkg');"
SrcNested == "run(() => import('inner'));"
SrcThen == "import('outer').then(() => import('inner'));"
SrcDeep == "(() => import('deep'));"

MoreSources ==
    {SrcPlainTemplate, SrcReexport, SrcMacro, SrcNested, SrcThen, SrcDeep}

\* Content of a file whose extension is not tracked.
SrcText == "plain text"

\* ------------------------------------------------------------ syntax trees
\* Babel node shapes (@babel/types).
Null == [type |-> "null"]
BId(name) == [type |-> "Identifier", name |-> name]
BStr(value) == [type |-> "StringLiteral", value |-> value]
BQuasi(cooked) == [type |-> "TemplateElement", value |-> [cooked |-> cooked]]
BTemplate(quasis, expressions) ==
    [type |-> "TemplateLiteral", quasis |-> quasis, expressions |-> expressions]
BCall(callee, arguments) ==
    [type |-> "CallExpression", callee |-> callee, arguments |-> arguments]
BImportKw == [type |-> "Import"]
BStmt(expression) == [type |-> "ExpressionStatement", expression |-> expression]
BImportDecl(source, locals) ==
    [type |-> "ImportDeclaration", source |-> BStr(source), specifiers |-> locals]
BExportNamed(source) ==
    [type |-> "ExportNamedDeclaration", source |-> source]
BFile(body) == [type |-> "File", body |-> body]
BMember(object, property) ==
    [type |-> "MemberExpression", object |-> object, property |-> property]
BArrow(body) == [type |-> "ArrowFunctionExpression", body |-> body]

\* What a parser call does: it returns a tree or throws an error with a name.
Returned(ast) == [threw |-> FALSE, name |-> "", message |-> "", ast |-> ast]
Thrown(name, message) ==
    [threw |-> TRUE, name |-> name, message |-> message, ast |-> Null]

\* babel7Parser: the function it resolves to, parseSync(source, babelOptions).
babel7Parser(source) ==
    CASE source = SrcStatic ->
           Returned(BFile(<<BImportDecl("bar", <<[local |-> "Foo", imported |-> "default"]>>)>>))
      [] source = SrcTwo ->
           Returned(BFile(<<
             BImportDecl("bar", <<[local |-> "Foo", imported |-> "default"]>>),
             BStmt(BCall(BImportKw, <<BTemplate(<<BQuasi("baz-"), BQuasi("")>>, <<BId("x")>>)>>))>>))
      [] source = SrcNone ->
           Returned(BFile(<<BExportNamed(Null)>>))
      [] source = SrcSyntax -> Thrown("SyntaxError", "Unexpected token")
      [] source = SrcUsage ->
           Returned(BFile(<<BStmt(BCall(BImportKw, <<BCall(BId("someFn"), <<>>)>>))>>))
      [] source = SrcMacroUsage ->
           Returned(BFile(<<
             BImportDecl("@embroider/macros",
                         <<[local |-> "importSync", imported |-> "importSync"]>>),
             BStmt(BCall(BId("importSync"), <<BCall(BId("someFn"), <<>>)>>))>>))
      [] source = SrcPlainTemplate ->
           Returned(BFile(<<BStmt(BCall(BImportKw, <<BTemplate(<<BQuasi("qux")>>, <<>>)>>))>>))
      [] source = SrcReexport ->
           Returned(BFile(<<BExportNamed(BStr("dep"))>>))
      [] source = SrcMacro ->
           Returned(BFile(<<
             BImportDecl("@embroider/macros",
                         <<[local |-> "importSync", imported |-> "importSync"]>>),
             BStmt(BCall(BId("importSync"), <<BStr("pkg")>>))>>))
      [] source = SrcNested ->
           Returned(BFile(<<
             BStmt(BCall(BId("run"),
                         <<BArrow(BCall(BImportKw, <<BStr("inner")>>))>>))>>))
      [] source = SrcThen ->
           Returned(BFile(<<
             BStmt(BCall(BMember(BCall(BImportKw, <<BStr("outer")>>), BId("then")),
                         <<BArrow(BCall(BImportKw, <<BStr("inner")>>))>>))>>))
      [] source = SrcDeep ->
           Returned(BFile(<<BStmt(BArrow(BCall(BImportKw, <<BStr("deep")>>)))>>))
      [] OTHER -> Thrown("Error", "internal parser error")

\* The same tree in the shape @swc/core gives it: identifiers carry `value`,
\* the import keyword is the identifier `import`, a call's arguments are
\* wrapped in {expression}, a template element's text is cooked.value.
RECURSIVE SwcShape(_)
SwcShapeAll(nodes) == [i \in DOMAIN nodes |-> SwcShape(nodes[i])]
SwcShape(n) ==
    CASE n.type = "File" -> [type |-> "Module", body |-> SwcShapeAll(n.body)]
      [] n.type = "Identifier" -> [type |-> "Identifier", value |-> n.name]
      [] n.type = "Import" -> [type |-> "Identifier", value |-> "import"]
      [] n.type = "TemplateElement" ->
           [type |-> "TemplateElement", cooked |-> [value |-> n.value.cooked]]
      [] n.type = "TemplateLiteral" ->
           [type |-> "TemplateLiteral", quasis |-> SwcShapeAll(n.quasis),
            expressions |-> SwcShapeAll(n.expressions)]
      [] n.type = "CallExpression" ->
           [type |-> "CallExpression", callee |-> SwcShape(n.callee),
            arguments |-> [i \in DOMAIN n.arguments |->
                             [expression |-> SwcShape(n.arguments[i])]]]
      [] n.type = "ExpressionStatement" ->
           [type |-> "ExpressionStatement", expression |-> SwcShape(n.expression)]
      [] n.type = "MemberExpression" ->
           [type |-> "MemberExpression", object |-> SwcShape(n.object),
            property |-> SwcShape(n.property)]
      [] n.type = "ArrowFunctionExpression" ->
           [type |-> "ArrowFunctionExpression", body |-> SwcShape(n.body)]
      [] n.type = "ImportDeclaration" ->
           [type |-> "ImportDeclaration", source |-> n.source,
            specifiers |-> n.specifiers]
      [] n.type = "ExportNamedDeclaration" ->
           [type |-> "ExportNamedDeclaration", source |-> n.source]
      [] OTHER -> n

\* swcParser: the function it resolves to, parseSync(source, options).
SwcResult(r) == IF r.threw THEN r ELSE Returned(SwcShape(r.ast))
swcParser(source) == SwcResult(babel7Parser(source))

\* -------------------------------------------------------------- extraction
\* The result of extracting from one file: the imports pushed, or the error
\* thrown on the way (whatever was pushed before it is dropped with it).
Ok(imports) == [threw |-> FALSE, name |-> "", message |-> "", imports |-> imports]
Throw(name, message) ==
    [threw |-> TRUE, name |-> name, message |-> message, imports |-> <<>>]
\* Two pieces of the walk in a row: an error thrown in the first ends it.
Then(first, rest) ==
    IF first.threw THEN first
    ELSE IF rest.threw THEN rest
    ELSE Ok(first.imports \o rest.imports)

UsageMessage ==
    "import() is only allowed to contain string literals or template string literals"

\* An absent name hint (inferNameHint returns undefined).
Undefined == "undefined"

LiteralImport(self, relativePath, isDynamic, specifier) ==
    [isDynamic |-> isDynamic, specifier |-> specifier, path |-> relativePath,
     package |-> self.pack.name, treeType |-> self.treeType]

TemplateImport(self, relativePath, isDynamic, cookedQuasis, expressionNameHints) ==
    [isDynamic |-> isDynamic, cookedQuasis |-> cookedQuasis,
     expressionNameHints |-> expressionNameHints, path |-> relativePath,
     package |-> self.pack.name, treeType |-> self.treeType]

inferNameHint(exp) == IF exp.type = "Identifier" THEN exp.name ELSE Undefined

swcInferNameHint(exp) == IF exp.type = "Identifier" THEN exp.value ELSE Undefined

\* processImportCallExpression with no default case: an argument of another
\* type yields nothing.
processImportCallExpressionLenient(self, relativePath, args, isDynamic) ==
    LET argument == args[1]
    IN  CASE argument.type = "StringLiteral" ->
               Ok(<<LiteralImport(self, relativePath, isDynamic, argument.value)>>)
          [] argument.type = "TemplateLiteral" ->
               IF Len(argument.quasis) = 1
               THEN Ok(<<LiteralImport(self, relativePath, isDynamic,
                                       argument.quasis[1].value.cooked)>>)
               ELSE Ok(<<TemplateImport(self, relativePath, isDynamic,
                          [i \in DOMAIN argument.quasis |-> argument.quasis[i].value.cooked],
                          [i \in DOMAIN argument.expressions |->
                             inferNameHint(argument.expressions[i])])>>)
          [] OTHER -> Ok(<<>>)

\* processImportCallExpression without the test of quasis.length: every template
\* literal yields a record with cookedQuasis.
processImportCallExpressionNoCollapse(self, relativePath, args, isDynamic) ==
    LET argument == args[1]
    IN  CASE argument.type = "StringLiteral" ->
               Ok(<<LiteralImport(self, relativePath, isDynamic, argument.value)>>)
          [] argument.type = "TemplateLiteral" ->
               Ok(<<TemplateImport(self, relativePath, isDynamic,
                      [i \in DOMAIN argument.quasis |-> argument.quasis[i].value.cooked],
                      [i \in DOMAIN argument.expressions |->
                         inferNameHint(argument.expressions[i])])>>)
          [] OTHER -> Throw("Error", UsageMessage)

processImportCallExpression(self, relativePath, args, isDynamic) ==
    LET argument == args[1]
    IN  CASE argument.type = "StringLiteral" ->
               Ok(<<LiteralImport(self, relativePath, isDynamic, argument.value)>>)
          [] argument.type = "TemplateLiteral" ->
               IF Len(argument.quasis) = 1
               THEN Ok(<<LiteralImport(self, relativePath, isDynamic,
                                       argument.quasis[1].value.cooked)>>)
               ELSE Ok(<<TemplateImport(self, relativePath, isDynamic,
                          [i \in DOMAIN argument.quasis |-> argument.quasis[i].value.cooked],
                          [i \in DOMAIN argument.expressions |->
                             inferNameHint(argument.expressions[i])])>>)
          [] OTHER -> Throw("Error", UsageMessage)

\* callee.referencesImport(moduleSource, importName): the identifier is bound by
\* an import declaration of the file that imports importName from moduleSource.
referencesImport(file, callee, moduleSource, importName) ==
    \E i \in DOMAIN file.body :
       /\ file.body[i].type = "ImportDeclaration"
       /\ file.body[i].source.value = moduleSource
       /\ \E j \in DOMAIN file.body[i].specifiers :
             /\ file.body[i].specifiers[j].local = callee.name
             /\ file.body[i].specifiers[j].imported = importName

\* The three visitors handed to @babel/traverse, applied to one node.
BabelVisitors(self, relativePath, file, node) ==
    CASE node.type = "CallExpression" ->
           IF node.callee.type = "Import"
           THEN processImportCallExpression(self, relativePath, node.arguments, TRUE)
           ELSE IF /\ node.callee.type = "Identifier"
                   /\ referencesImport(file, node.callee, "@embroider/macros", "importSync")
                THEN processImportCallExpression(self, relativePath, node.arguments, FALSE)
                ELSE Ok(<<>>)
      [] node.type = "ImportDeclaration" ->
           Ok(<<LiteralImport(self, relativePath, FALSE, node.source.value)>>)
      [] node.type = "ExportNamedDeclaration" ->
           IF node.source # Null
           THEN Ok(<<LiteralImport(self, relativePath, FALSE, node.source.value)>>)
           ELSE Ok(<<>>)
      [] OTHER -> Ok(<<>>)

\* The nodes traverse() goes on to below a node, in source order.
BabelChildren(node) ==
    CASE node.type = "File" -> node.body
      [] node.type = "ExpressionStatement" -> <<node.expression>>
      [] node.type = "CallExpression" -> <<node.callee>> \o node.arguments
      [] node.type = "MemberExpression" -> <<node.object>>
      [] node.type = "ArrowFunctionExpression" -> <<node.body>>
      [] node.type = "TemplateLiteral" -> node.expressions
      [] OTHER -> <<>>

\* traverse(ast, visitors): every node, parents before children.
RECURSIVE BabelTraverse(_, _, _, _)
RECURSIVE BabelTraverseAll(_, _, _, _)
BabelTraverseAll(self, relativePath, file, nodes) ==
    IF nodes = <<>> THEN Ok(<<>>)
    ELSE Then(BabelTraverse(self, relativePath, file, Head(nodes)),
              BabelTraverseAll(self, relativePath, file, Tail(nodes)))

BabelTraverse(self, relativePath, file, node) ==
    Then(BabelVisitors(self, relativePath, file, node),
         BabelTraverseAll(self, relativePath, file, BabelChildren(node)))

\* ImportAnalyzer.visitCallExpression: it does not call the inherited method,
\* so nothing below the call expression is visited.
visitCallExpression(self, relativePath, e) ==
    LET viaMember ==
          /\ e.callee.type = "MemberExpression"
          /\ "callee" \in DOMAIN e.callee.object
          /\ "value" \in DOMAIN e.callee.object.callee
          /\ e.callee.object.callee.value = "import"
        direct == e.callee.type = "Identifier" /\ e.callee.value = "import"
        callee == IF viaMember THEN e.callee.object ELSE e
    IN  IF ~(viaMember \/ direct) THEN Ok(<<>>)
        ELSE LET argument == callee.arguments[1]
                 expression == argument.expression
             IN  CASE expression.type = "StringLiteral" ->
                        Ok(<<LiteralImport(self, relativePath, TRUE, expression.value)>>)
                   [] expression.type = "TemplateLiteral" ->
                        IF Len(expression.quasis) = 1
                        THEN Ok(<<LiteralImport(self, relativePath, TRUE,
                                                expression.quasis[1].cooked.value)>>)
                        ELSE Ok(<<TemplateImport(self, relativePath, TRUE,
                                   [i \in DOMAIN expression.quasis |->
                                      expression.quasis[i].cooked.value],
                                   [i \in DOMAIN expression.expressions |->
                                      swcInferNameHint(expression.expressions[i])])>>)
                   [] OTHER -> Throw("Error", UsageMessage)

visitImportDeclaration(self, relativePath, e) ==
    Ok(<<LiteralImport(self, relativePath, FALSE, e.source.value)>>)

visitExportNamedDeclaration(self, relativePath, e) ==
    IF e.source # Null
    THEN Ok(<<LiteralImport(self, relativePath, FALSE, e.source.value)>>)
    ELSE Ok(<<>>)

\* new ImportAnalyzer().visitProgram(m): the inherited Visitor walks the tree
\* and hands each node to the method of its type; the three methods above
\* replace the inherited ones.
RECURSIVE SwcVisit(_, _, _)
RECURSIVE SwcVisitAll(_, _, _)
SwcVisitAll(self, relativePath, nodes) ==
    IF nodes = <<>> THEN Ok(<<>>)
    ELSE Then(SwcVisit(self, relativePath, Head(nodes)),
              SwcVisitAll(self, relativePath, Tail(nodes)))

SwcVisit(self, relativePath, node) ==
    CASE node.type = "Module" -> SwcVisitAll(self, relativePath, node.body)
      [] node.type = "CallExpression" -> visitCallExpression(self, relativePath, node)
      [] node.type = "ImportDeclaration" -> visitImportDeclaration(self, relativePath, node)
      [] node.type = "ExportNamedDeclaration" ->
           visitExportNamedDeclaration(self, relativePath, node)
      [] node.type = "ExpressionStatement" ->
           SwcVisit(self, relativePath, node.expression)
      [] node.type = "MemberExpression" -> SwcVisit(self, relativePath, node.object)
      [] node.type = "ArrowFunctionExpression" ->
           SwcVisit(self, relativePath, node.body)
      [] node.type = "TemplateLiteral" ->
           SwcVisitAll(self, relativePath, node.expressions)
      [] OTHER -> Ok(<<>>)

\* this.parse once setupParser has set it: the parser of the selected backend.
ParseWith(parse, source) ==
    IF parse = "swc" THEN swcParser(source) ELSE babel7Parser(source)

\* parseImports with the test of err.name dropped: every parser error is thrown
\* again.
parseImportsRethrowAll(self, relativePath, parsed) ==
    IF parsed.threw
    THEN Throw(parsed.name, parsed.message)
    ELSE IF self.pack.useSwcParser
         THEN SwcVisit(self, relativePath, parsed.ast)
         ELSE BabelTraverse(self, relativePath, parsed.ast, parsed.ast)

\* parseImports with a catch that rethrows nothing: every parser error counts
\* as an unparseable file.
parseImportsSwallowAll(self, relativePath, parsed) ==
    IF parsed.threw
    THEN Ok(<<>>)
    ELSE IF self.pack.useSwcParser
         THEN SwcVisit(self, relativePath, parsed.ast)
         ELSE BabelTraverse(self, relativePath, parsed.ast, parsed.ast)

\* Analyzer.parseImports after `this.parse!(source)` returned or threw
\* (parsed). A thrown SyntaxError leaves ast undefined and the file yields no
\* imports; any other error is thrown again.
parseImportsFrom(self, relativePath, parsed) ==
    IF parsed.threw
    THEN IF parsed.name # "SyntaxError"
         THEN Throw(parsed.name, parsed.message)
         ELSE Ok(<<>>)
    ELSE IF self.pack.useSwcParser
         THEN SwcVisit(self, relativePath, parsed.ast)
         ELSE BabelTraverse(self, relativePath, parsed.ast, parsed.ast)

\* Analyzer.parseImports
parseImports(self, relativePath, source) ==
    parseImportsFrom(self, relativePath, ParseWith(self.parse, source))

\* ------------------------------------------------------------ the file tree
\* The paths of the input tree, in the order walkSync lists them.
PathOrder == <<"a.js", "c.txt", "lib", "lib/b.js">>
Paths == {PathOrder[i] : i \in DOMAIN PathOrder}
Dirs == {"lib"}
Files == Paths \ Dirs
Index(path) == CHOOSE i \in DOMAIN PathOrder : PathOrder[i] = path

\* path.extname
extname(path) ==
    CASE path \in {"a.js", "lib/b.js"} -> ".js"
      [] path = "c.txt" -> ".txt"
      [] OTHER -> ""

\* String.prototype.slice(1) on an extension
slice1(ext) ==
    CASE ext = ".js" -> "js"
      [] ext = ".txt" -> "txt"
      [] OTHER -> ""

\* path.dirname, "." for the root
dirname(path) == IF path = "lib/b.js" THEN "lib" ELSE "."

\* An entry of a directory listing; Absent where the path does not exist.
\* rev stands for the size/mtime/mode of a file: it changes when a file is
\* written again with the text it already holds.
Absent == [kind |-> "absent", source |-> "", rev |-> 0]
DirEntry == [kind |-> "dir", source |-> "", rev |-> 0]
FileEntry(source, rev) == [kind |-> "file", source |-> source, rev |-> rev]
EmptyTree == [p \in Paths |-> Absent]

\* The texts the environment writes to a path.
TextsFor(path) == IF slice1(extname(path)) = "js" THEN Sources ELSE {SrcText}

\* ------------------------------------------------------------------- state
VARIABLES
    pack,          \* the Package the Analyzer was constructed with
    input,         \* inputPaths[0]: path -> entry
    output,        \* outputPath: the set of paths that exist in it
    previousTree,  \* this.previousTree: path -> entry
    modules,       \* this.modules: [null |-> TRUE] or [null |-> FALSE, value |-> seq]
    paths,         \* this.paths: the Map, as its <<key, value>> entries in insertion order
    parse,         \* this.parse: "undefined", "swc" or "babel7"
    pc,            \* where each call of build() stands
    patch,         \* the operations the running forEach has not applied yet
    result,        \* how each call of build() settled last
    submitted,     \* per path, the text whose imports this.paths holds ("" if none)
    last,          \* the step taken last, with the store as it was before it
    count          \* how often things happened so far

vars == <<pack, input, output, previousTree, modules, paths, parse, pc, patch,
          result, submitted, last, count>>

treeType == "app"

Calls == {1, 2}

NullModules == [null |-> TRUE, value |-> <<>>]
Modules(value) == [null |-> FALSE, value |-> value]

NoError == [threw |-> FALSE, name |-> "", message |-> "", code |-> ""]
Error(name, message) ==
    [threw |-> TRUE, name |-> name, message |-> message, code |-> ""]
\* An error of a file system call, with its code.
FsError(code) == [threw |-> TRUE, name |-> "Error", message |-> code, code |-> code]

\* ------------------------------------------------------------- Map (paths)
MapKeys(map) == {map[i][1] : i \in DOMAIN map}
MapHas(map, key) == key \in MapKeys(map)
MapGet(map, key) == map[CHOOSE i \in DOMAIN map : map[i][1] = key][2]
\* A Map that keeps its keys in the order of the listing: a new key is put
\* before the keys that come after it there.
MapSetSorted(map, key, value) ==
    IF MapHas(map, key)
    THEN [i \in DOMAIN map |-> IF map[i][1] = key THEN <<key, value>> ELSE map[i]]
    ELSE SelectSeq(map, LAMBDA e :
                     (CHOOSE i \in 1..4 : <<"a.js", "c.txt", "lib", "lib/b.js">>[i] = e[1])
                   < (CHOOSE i \in 1..4 : <<"a.js", "c.txt", "lib", "lib/b.js">>[i] = key))
         \o <<(<<key, value>>)>>
         \o SelectSeq(map, LAMBDA e :
                     (CHOOSE i \in 1..4 : <<"a.js", "c.txt", "lib", "lib/b.js">>[i] = e[1])
                   > (CHOOSE i \in 1..4 : <<"a.js", "c.txt", "lib", "lib/b.js">>[i] = key))

\* Map.prototype.set: a key that is present keeps its place
MapSet(map, key, value) ==
    IF MapHas(map, key)
    THEN [i \in DOMAIN map |-> IF map[i][1] = key THEN <<key, value>> ELSE map[i]]
    ELSE Append(map, <<key, value>>)
MapDelete(map, key) == SelectSeq(map, LAMBDA e : e[1] # key)
\* [...map.values()]
MapValues(map) == [i \in DOMAIN map |-> map[i][2]]

\* lodash flatten of an array of arrays
RECURSIVE flatten(_)
flatten(arrays) ==
    IF arrays = <<>> THEN <<>> ELSE Head(arrays) \o flatten(Tail(arrays))

\* lodash isEqual(this.paths.get(relativePath), newImports): undefined when the
\* key is absent, and undefined equals no array
isEqualEntry(map, relativePath, newImports) ==
    MapHas(map, relativePath) /\ MapGet(map, relativePath) = newImports

\* ------------------------------------------------------------ the Analyzer
\* The store part of the instance, as the methods below read and write it.
Store(p, m, marks) == [paths |-> p, modules |-> m, marks |-> marks]

\* removeImports with the length test dropped: it nulls this.modules for every
\* entry it deletes.
removeImportsAlwaysNull(store, relativePath) ==
    IF MapHas(store.paths, relativePath)
    THEN Store(MapDelete(store.paths, relativePath), NullModules, store.marks + 1)
    ELSE store

\* removeImports that deletes the entry and forgets to null this.modules.
removeImportsKeepCache(store, relativePath) ==
    IF MapHas(store.paths, relativePath)
    THEN Store(MapDelete(store.paths, relativePath), store.modules, store.marks)
    ELSE store

\* removeImports that nulls this.modules and leaves the entry in the Map.
removeImportsKeepEntry(store, relativePath) ==
    IF MapHas(store.paths, relativePath)
    THEN LET imports == MapGet(store.paths, relativePath)
         IN  Store(store.paths,
                   IF Len(imports) > 0 THEN NullModules ELSE store.modules,
                   IF Len(imports) > 0 THEN store.marks + 1 ELSE store.marks)
    ELSE store

\* Analyzer.removeImports
removeImports(store, relativePath) ==
    IF MapHas(store.paths, relativePath)
    THEN LET imports == MapGet(store.paths, relativePath)
         IN  Store(MapDelete(store.paths, relativePath),
                   IF Len(imports) > 0 THEN NullModules ELSE store.modules,
                   IF Len(imports) > 0 THEN store.marks + 1 ELSE store.marks)
    ELSE store

\* updateImports with the isEqual test dropped: it sets the entry every time.
updateImportsAlways(store, relativePath, newImports) ==
    IF newImports.threw
    THEN [store |-> store, error |-> Error(newImports.name, newImports.message)]
    ELSE [store |-> Store(MapSet(store.paths, relativePath, newImports.imports),
                          NullModules, store.marks + 1),
          error |-> NoError]

\* updateImports that sets the entry and forgets to null this.modules.
updateImportsKeepCache(store, relativePath, newImports) ==
    IF newImports.threw
    THEN [store |-> store, error |-> Error(newImports.name, newImports.message)]
    ELSE IF ~isEqualEntry(store.paths, relativePath, newImports.imports)
         THEN [store |-> Store(MapSet(store.paths, relativePath, newImports.imports),
                               store.modules, store.marks),
               error |-> NoError]
         ELSE [store |-> store, error |-> NoError]

\* updateImports that counts a file on which parseImports throws as a file
\* without imports, and sets its entry before it throws.
updateImportsStoreOnThrow(store, relativePath, newImports) ==
    IF newImports.threw
    THEN [store |-> Store(MapSet(store.paths, relativePath, <<>>),
                          NullModules, store.marks + 1),
          error |-> Error(newImports.name, newImports.message)]
    ELSE IF ~isEqualEntry(store.paths, relativePath, newImports.imports)
         THEN [store |-> Store(MapSet(store.paths, relativePath, newImports.imports),
                               NullModules, store.marks + 1),
               error |-> NoError]
         ELSE [store |-> store, error |-> NoError]

\* Analyzer.updateImports after parseImports returned or threw (newImports):
\* the store after it and the error it threw, if any
updateImportsWith(store, relativePath, newImports) ==
    IF newImports.threw
    THEN [store |-> store, error |-> Error(newImports.name, newImports.message)]
    ELSE IF ~isEqualEntry(store.paths, relativePath, newImports.imports)
         THEN [store |-> Store(MapSet(store.paths, relativePath, newImports.imports),
                               NullModules, store.marks + 1),
               error |-> NoError]
         ELSE [store |-> store, error |-> NoError]

\* Analyzer.updateImports
updateImports(self, store, relativePath, source) ==
    updateImportsWith(store, relativePath, parseImports(self, relativePath, source))

\* matchesExtension that takes every path for a tracked one.
matchesExtensionAny(path) == path = path

\* Analyzer.matchesExtension
matchesExtension(path) == slice1(extname(path)) \in pack.fileExtensions

\* The getter with the null test dropped: it flattens on every read.
importsAlwaysFlatten(modulesNow, pathsNow) ==
    [modules |-> Modules(flatten(MapValues(pathsNow))), flattened |-> TRUE]

\* get imports(): this.modules afterwards (the getter returns their value), and
\* whether it flattened the Map to get them
imports(modulesNow, pathsNow) ==
    IF modulesNow.null
    THEN [modules |-> Modules(flatten(MapValues(pathsNow))), flattened |-> TRUE]
    ELSE [modules |-> modulesNow, flattened |-> FALSE]

\* FSTree.calculatePatch with the default entry comparison: removals in
\* reverse listing order, then additions and changes in listing order;
\* directories are never changed.
Reverse(seq) == [i \in DOMAIN seq |-> seq[Len(seq) + 1 - i]]
IsRemoval(previous, next, path) ==
    previous[path] # Absent /\ next[path] = Absent
IsAddition(previous, next, path) ==
    \/ previous[path] = Absent /\ next[path] # Absent
    \/ /\ previous[path] # Absent /\ next[path] # Absent
       /\ next[path].kind = "file" /\ previous[path] # next[path]
removeOperation(previous, path) ==
    <<IF previous[path].kind = "dir" THEN "rmdir" ELSE "unlink", path>>
addOperation(previous, next, path) ==
    <<IF previous[path] # Absent THEN "change"
      ELSE IF next[path].kind = "dir" THEN "mkdir" ELSE "create", path>>
calculatePatch(previous, next) ==
    LET removed == SelectSeq(PathOrder, LAMBDA p : IsRemoval(previous, next, p))
        added == SelectSeq(PathOrder, LAMBDA p : IsAddition(previous, next, p))
    IN  Reverse([i \in DOMAIN removed |-> removeOperation(previous, removed[i])])
        \o [i \in DOMAIN added |-> addOperation(previous, next, added[i])]

\* readFileSync(absoluteInputPath, 'utf8')
readFileSync(tree, relativePath) == tree[relativePath].source

\* The end of the `unlink` case: fs.unlinkSync(outputPath) after removeImports
\* (removed: the store it left).
unlinkSync(removed, out, relativePath) ==
    IF relativePath \in out
    THEN [store |-> removed, output |-> out \ {relativePath}, error |-> NoError]
    ELSE [store |-> removed, output |-> out, error |-> FsError("ENOENT")]

\* The end of the `create` case: unless updateImports threw (updated), the
\* input file is linked into the output directory (cleared: the directory once
\* `change` has removed the previous link).
symlinkOrCopy(updated, cleared, relativePath) ==
    IF updated.error.threw
    THEN [store |-> updated.store, output |-> cleared, error |-> updated.error]
    ELSE IF relativePath \in cleared
         THEN [store |-> updated.store, output |-> cleared,
               error |-> FsError("EEXIST")]
         ELSE IF dirname(relativePath) # "." /\ dirname(relativePath) \notin cleared
              THEN [store |-> updated.store, output |-> cleared,
                    error |-> FsError("ENOENT")]
              ELSE [store |-> updated.store,
                    output |-> cleared \cup {relativePath}, error |-> NoError]

\* The callback with `change` removing the old link only after updateImports
\* has returned: when updateImports throws the link is still there.
applyOperationRemoveLate(self, store, out, tree, operation, relativePath) ==
    CASE operation = "unlink" ->
           unlinkSync(IF matchesExtension(relativePath)
                      THEN removeImports(store, relativePath)
                      ELSE store,
                      out, relativePath)
      [] operation = "rmdir" ->
           IF relativePath \notin out
           THEN [store |-> store, output |-> out, error |-> FsError("ENOENT")]
           ELSE IF \E q \in out : dirname(q) = relativePath
                THEN [store |-> store, output |-> out, error |-> FsError("ENOTEMPTY")]
                ELSE [store |-> store, output |-> out \ {relativePath}, error |-> NoError]
      [] operation = "mkdir" ->
           IF relativePath \in out
           THEN [store |-> store, output |-> out, error |-> FsError("EEXIST")]
           ELSE [store |-> store, output |-> out \cup {relativePath}, error |-> NoError]
      [] operation \in {"change", "create"} ->
           IF matchesExtension(relativePath)
              /\ updateImports(self, store, relativePath,
                               readFileSync(tree, relativePath)).error.threw
           THEN [store |-> store, output |-> out,
                 error |-> updateImports(self, store, relativePath,
                                         readFileSync(tree, relativePath)).error]
           ELSE symlinkOrCopy(IF matchesExtension(relativePath)
                              THEN updateImports(self, store, relativePath,
                                                 readFileSync(tree, relativePath))
                              ELSE [store |-> store, error |-> NoError],
                              IF operation = "change" THEN out \ {relativePath} ELSE out,
                              relativePath)

\* One call of the forEach callback of build(): the store and the output
\* directory after it, and the error it threw, if any.
applyOperation(self, store, out, tree, operation, relativePath) ==
    CASE operation = "unlink" ->
           unlinkSync(IF matchesExtension(relativePath)
                      THEN removeImports(store, relativePath)
                      ELSE store,
                      out, relativePath)
      [] operation = "rmdir" ->
           IF relativePath \notin out
           THEN [store |-> store, output |-> out, error |-> FsError("ENOENT")]
           ELSE IF \E q \in out : dirname(q) = relativePath
                THEN [store |-> store, output |-> out, error |-> FsError("ENOTEMPTY")]
                ELSE [store |-> store, output |-> out \ {relativePath}, error |-> NoError]
      [] operation = "mkdir" ->
           IF relativePath \in out
           THEN [store |-> store, output |-> out, error |-> FsError("EEXIST")]
           ELSE [store |-> store, output |-> out \cup {relativePath}, error |-> NoError]
      [] operation \in {"change", "create"} ->
           symlinkOrCopy(IF matchesExtension(relativePath)
                         THEN updateImports(self, store, relativePath,
                                            readFileSync(tree, relativePath))
                         ELSE [store |-> store, error |-> NoError],
                         IF operation = "change" THEN out \ {relativePath} ELSE out,
                         relativePath)

ConfigMessage(p) ==
    <<"don't know how to setup a parser for Babel version", p.babelMajorVersion,
      "used by", p.name>>

\* setupParser without the test of this.parse: it loads the parser every time.
setupParserEveryTime(parseNow, p) ==
    IF p.useSwcParser THEN [do |-> "await swcParser", error |-> NoError]
    ELSE IF p.babelMajorVersion = 7 THEN [do |-> "await babel7Parser", error |-> NoError]
    ELSE [do |-> "throw", error |-> Error("Error", ConfigMessage(p))]

\* setupParser with the Babel 7 parser as the default case of the switch.
setupParserAnyBabel(parseNow, p) ==
    IF parseNow # "undefined" THEN [do |-> "return", error |-> NoError]
    ELSE IF p.useSwcParser THEN [do |-> "await swcParser", error |-> NoError]
    ELSE [do |-> "await babel7Parser", error |-> NoError]

\* Analyzer.setupParser up to its first await: what it goes on to do
setupParser(parseNow, p) ==
    IF parseNow # "undefined" THEN [do |-> "return", error |-> NoError]
    ELSE IF p.useSwcParser THEN [do |-> "await swcParser", error |-> NoError]
    ELSE IF p.babelMajorVersion = 7 THEN [do |-> "await babel7Parser", error |-> NoError]
    ELSE [do |-> "throw", error |-> Error("Error", ConfigMessage(p))]

\* ---------------------------------------------------------------- history
Step(action, call, operation, path, source, error) ==
    [action |-> action, call |-> call, operation |-> operation, path |-> path,
     source |-> source, error |-> error, prePaths |-> paths, preModules |-> modules,
     preMarks |-> count.marks, prePatch |-> patch, preTree |-> previousTree,
     preText |-> IF path \in Paths THEN submitted[path] ELSE ""]

\* Errors of the file system calls, by their code.
IsFsError(error) == error.threw /\ error.code \in {"EEXIST", "ENOENT", "ENOTEMPTY"}

Settled(status, error) == [status |-> status, error |-> error]

\* ------------------------------------------------------------------- Init
Packages ==
    {[name |-> "my-app", useSwcParser |-> swc, babelMajorVersion |-> version,
      fileExtensions |-> {"js", "ts"}] :
        <<swc, version>> \in {<<TRUE, 7>>, <<FALSE, 7>>, <<FALSE, 6>>}}

\* The Analyzer is constructed over an input directory that is still empty.
Init ==
    /\ pack \in Packages
    /\ input = EmptyTree
    /\ output = {}
    /\ previousTree = EmptyTree
    /\ modules = Modules(<<>>)
    /\ paths = <<>>
    /\ parse = "undefined"
    /\ pc = [b \in Calls |-> "idle"]
    /\ patch = <<>>
    /\ result = [b \in Calls |-> Settled("none", NoError)]
    /\ submitted = [p \in Paths |-> ""]
    /\ last = [action |-> "new", call |-> 0, operation |-> "", path |-> "",
               source |-> "", error |-> NoError, prePaths |-> <<>>,
               preModules |-> Modules(<<>>), preMarks |-> 0, prePatch |-> <<>>,
               preTree |-> EmptyTree, preText |-> ""]
    /\ count = [edits |-> 0, builds |-> 0, setups |-> 0, recomputes |-> 0, marks |-> 0,
                rejected |-> 0, evictions |-> [p \in Paths |-> 0]]

\* ---------------------------------------------------------------- actions
Self == [pack |-> pack, treeType |-> treeType, parse |-> parse]

\* No forEach is running: JavaScript runs it to completion before anything else.
NoneApplying == \A b \in Calls : pc[b] # "applying"
AllIdle == \A b \in Calls : pc[b] = "idle"
FirstIdle(b) == pc[b] = "idle" /\ \A c \in Calls : c < b => pc[c] # "idle"

\* The environment writes a file of the input tree, with its directory.
WriteFile(path, source) ==
    /\ NoneApplying
    /\ count.edits < MaxEdits
    /\ path \in Files /\ source \in TextsFor(path)
    /\ input' = [p \in Paths |->
                   IF p = path
                   THEN IF input[path].kind = "file" /\ input[path].source = source
                        THEN FileEntry(source, 1 - input[path].rev)
                        ELSE FileEntry(source, 0)
                   ELSE IF p = dirname(path) THEN DirEntry
                   ELSE input[p]]
    /\ count' = [count EXCEPT !.edits = @ + 1]
    /\ last' = Step("edit", 0, "", "", "", NoError)
    /\ UNCHANGED <<pack, output, previousTree, modules, paths, parse, pc, patch, result, submitted>>

\* The environment removes a file, or a directory with what is in it.
Remove(path) ==
    /\ NoneApplying
    /\ count.edits < MaxEdits
    /\ input[path] # Absent
    /\ input' = [p \in Paths |->
                   IF p = path \/ dirname(p) = path THEN Absent ELSE input[p]]
    /\ count' = [count EXCEPT !.edits = @ + 1]
    /\ last' = Step("edit", 0, "", "", "", NoError)
    /\ UNCHANGED <<pack, output, previousTree, modules, paths, parse, pc, patch, result, submitted>>

\* The environment creates a directory of the input tree.
MakeDir(path) ==
    /\ NoneApplying
    /\ count.edits < MaxEdits
    /\ path \in Dirs /\ input[path] = Absent
    /\ input' = [input EXCEPT ![path] = DirEntry]
    /\ count' = [count EXCEPT !.edits = @ + 1]
    /\ last' = Step("edit", 0, "", "", "", NoError)
    /\ UNCHANGED <<pack, output, previousTree, modules, paths, parse, pc, patch, result, submitted>>

\* build() is called: it runs setupParser up to its first await.
BuildCalled(b) ==
    /\ NoneApplying
    /\ FirstIdle(b)
    /\ LET setup == setupParser(parse, pack)
       IN  /\ pc' = [pc EXCEPT ![b] =
                       CASE setup.do = "return" -> "resolved"
                         [] setup.do = "throw" -> "idle"
                         [] OTHER -> "loading"]
           /\ result' = [result EXCEPT ![b] =
                           IF setup.do = "throw" THEN Settled("rejected", setup.error)
                           ELSE Settled("pending", NoError)]
           /\ last' = Step("build", b, "", "", "", setup.error)
           /\ count' = [count EXCEPT !.builds = @ + 1,
                                     !.rejected = IF setup.do = "throw" THEN @ + 1 ELSE @]
    /\ UNCHANGED <<pack, input, output, previousTree, modules, paths, parse, patch, submitted>>

CallBuild(b) == count.builds < MaxBuilds /\ BuildCalled(b)

\* The parser module is loaded: `this.parse = await ...Parser(...)` assigns.
SetupLoaded(b) ==
    /\ NoneApplying
    /\ pc[b] = "loading"
    /\ parse' = IF pack.useSwcParser THEN "swc" ELSE "babel7"
    /\ pc' = [pc EXCEPT ![b] = "resolved"]
    /\ count' = [count EXCEPT !.setups = @ + 1]
    /\ last' = Step("setup", b, "", "", "", NoError)
    /\ UNCHANGED <<pack, input, output, previousTree, modules, paths, patch, result, submitted>>

\* A build that could go on to getPatchset() while the forEach of another is
\* under way.
ResumeAnytime(b) ==
    /\ pc[b] = "resolved"
    /\ previousTree' = input
    /\ patch' = calculatePatch(previousTree, input)
    /\ pc' = [pc EXCEPT ![b] = "applying"]
    /\ last' = Step("getPatchset", b, "", "", "", NoError)
    /\ UNCHANGED <<pack, input, output, modules, paths, parse, result, submitted, count>>

\* getPatchset() that leaves this.previousTree as it is.
ResumeKeepSnapshot(b) ==
    /\ NoneApplying
    /\ pc[b] = "resolved"
    /\ previousTree' = previousTree
    /\ patch' = calculatePatch(previousTree, input)
    /\ pc' = [pc EXCEPT ![b] = "applying"]
    /\ last' = Step("getPatchset", b, "", "", "", NoError)
    /\ UNCHANGED <<pack, input, output, modules, paths, parse, result, submitted, count>>

\* build() resumes after `await this.setupParser()` and calls getPatchset().
Resume(b) ==
    /\ NoneApplying
    /\ pc[b] = "resolved"
    /\ previousTree' = input
    /\ patch' = calculatePatch(previousTree, input)
    /\ pc' = [pc EXCEPT ![b] = "applying"]
    /\ last' = Step("getPatchset", b, "", "", "", NoError)
    /\ UNCHANGED <<pack, input, output, modules, paths, parse, result, submitted, count>>

\* What one call of the forEach callback leaves behind (applied).
Applied(b, operation, relativePath, applied) ==
    /\ paths' = applied.store.paths
    /\ modules' = applied.store.modules
    /\ count' = [count EXCEPT !.marks = applied.store.marks,
                              !.rejected = IF applied.error.threw THEN @ + 1 ELSE @,
                              !.evictions[relativePath] =
                                 IF MapHas(paths, relativePath)
                                    /\ ~MapHas(applied.store.paths, relativePath)
                                 THEN @ + 1 ELSE @]
    /\ output' = applied.output
    /\ submitted' =
         IF ~matchesExtension(relativePath) THEN submitted
         ELSE IF operation = "unlink" THEN [submitted EXCEPT ![relativePath] = ""]
         ELSE IF operation \in {"change", "create"}
                 /\ (applied.error.threw => IsFsError(applied.error))
              THEN [submitted EXCEPT ![relativePath] = readFileSync(input, relativePath)]
              ELSE submitted
    /\ last' = Step("apply", b, operation, relativePath,
                    IF operation \in {"change", "create"}
                    THEN readFileSync(input, relativePath) ELSE "",
                    applied.error)
    /\ IF applied.error.threw
       THEN /\ patch' = <<>>
            /\ pc' = [pc EXCEPT ![b] = "idle"]
            /\ result' = [result EXCEPT ![b] = Settled("rejected", applied.error)]
       ELSE /\ patch' = Tail(patch)
            /\ UNCHANGED <<pc, result>>

\* The forEach of build() applies the next operation of the patch; an error
\* thrown by it ends the forEach and rejects the build.
ApplyOperation(b) ==
    /\ pc[b] = "applying"
    /\ patch # <<>>
    /\ Applied(b, Head(patch)[1], Head(patch)[2],
               applyOperation(Self, Store(paths, modules, count.marks), output, input,
                              Head(patch)[1], Head(patch)[2]))
    /\ UNCHANGED <<pack, input, previousTree, parse>>

\* The forEach has applied every operation: build() fulfils.
Finish(b) ==
    /\ pc[b] = "applying"
    /\ patch = <<>>
    /\ pc' = [pc EXCEPT ![b] = "idle"]
    /\ result' = [result EXCEPT ![b] = Settled("fulfilled", NoError)]
    /\ last' = Step("fulfil", b, "", "", "", NoError)
    /\ UNCHANGED <<pack, input, output, previousTree, modules, paths, parse, patch, submitted, count>>

\* The consumer reads `imports`.
ReadImports ==
    /\ NoneApplying
    /\ modules' = imports(modules, paths).modules
    /\ count' = [count EXCEPT !.recomputes =
                   IF imports(modules, paths).flattened THEN @ + 1 ELSE @]
    /\ last' = Step("read", 0, "", "", "", NoError)
    /\ UNCHANGED <<pack, input, output, previousTree, paths, parse, pc, patch, result, submitted>>

Edit ==
    \/ \E path \in Files : \E source \in Sources \cup {SrcText} : WriteFile(path, source)
    \/ \E path \in Paths : Remove(path)
    \/ \E path \in Dirs : MakeDir(path)

\* One build at a time, as the caller of build() is required to run them.
Next ==
    \/ Edit
    \/ \E b \in Calls : AllIdle /\ CallBuild(b)
    \/ \E b \in Calls : SetupLoaded(b)
    \/ \E b \in Calls : Resume(b)
    \/ \E b \in Calls : ApplyOperation(b)
    \/ \E b \in Calls : Finish(b)
    \/ ReadImports

Spec == Init /\ [][Next]_vars

\* ------------------------------------------------------ overlapping builds
\* build() may be called while an earlier call is still waiting for
\* setupParser; meanwhile the environment writes the two tracked files, and
\* removes a.js.
OverlapTexts == {SrcStatic, SrcUsage}
NextOverlap ==
    \/ \E path \in {"a.js", "lib/b.js"} : \E source \in OverlapTexts :
          WriteFile(path, source)
    \/ Remove("a.js")
    \/ \E b \in Calls : CallBuild(b)
    \/ \E b \in Calls : SetupLoaded(b)
    \/ \E b \in Calls : Resume(b)
    \/ \E b \in Calls : ApplyOperation(b)
    \/ \E b \in Calls : Finish(b)
    \/ ReadImports

SpecOverlap == Init /\ [][NextOverlap]_vars

\* ------------------------------------------- whole listings between builds
\* The listings staged: a.js and lib/b.js each absent or holding one of two
\* texts, lib there when lib/b.js is.
StagedTexts == {SrcStatic, SrcTwo}
StagedTrees ==
    {[p \in Paths |->
        CASE p = "a.js" -> a
          [] p = "lib/b.js" -> b
          [] p = "lib" -> IF b = Absent THEN Absent ELSE DirEntry
          [] OTHER -> Absent] :
       a \in {Absent} \cup {FileEntry(t, 0) : t \in StagedTexts},
       b \in {Absent} \cup {FileEntry(t, 0) : t \in StagedTexts}}

\* While no build is in flight the environment brings the input directory to
\* another listing.
Restage(tree) ==
    /\ AllIdle
    /\ count.edits < MaxStages
    /\ tree \in StagedTrees /\ tree # input
    /\ input' = tree
    /\ count' = [count EXCEPT !.edits = @ + 1]
    /\ last' = Step("edit", 0, "", "", "", NoError)
    /\ UNCHANGED <<pack, output, previousTree, modules, paths, parse, pc, patch, result, submitted>>

\* The Analyzer of a package whose parser setupParser can load.
InitStaged == Init /\ (pack.useSwcParser \/ pack.babelMajorVersion = 7)

NextStaged ==
    \/ \E tree \in StagedTrees : Restage(tree)
    \/ \E b \in Calls : AllIdle /\ count.builds < MaxRebuilds /\ BuildCalled(b)
    \/ \E b \in Calls : SetupLoaded(b)
    \/ \E b \in Calls : Resume(b)
    \/ \E b \in Calls : ApplyOperation(b)
    \/ \E b \in Calls : Finish(b)
    \/ ReadImports

SpecStaged == InitStaged /\ [][NextStaged]_vars

\* ------------------------------------------------- one file, every text
\* While no build is in flight the environment writes a.js, with any of the
\* texts.
Rewrite(source) ==
    /\ AllIdle
    /\ count.edits < MaxRewrites
    /\ source \in Sources \cup MoreSources
    /\ input[("a.js")] # FileEntry(source, 0)
    /\ input' = [input EXCEPT ![("a.js")] = FileEntry(source, 0)]
    /\ count' = [count EXCEPT !.edits = @ + 1]
    /\ last' = Step("edit", 0, "", "", "", NoError)
    /\ UNCHANGED <<pack, output, previousTree, modules, paths, parse, pc, patch, result, submitted>>

NextTexts ==
    \/ \E source \in Sources \cup MoreSources : Rewrite(source)
    \/ \E b \in Calls : AllIdle /\ CallBuild(b)
    \/ \E b \in Calls : SetupLoaded(b)
    \/ \E b \in Calls : Resume(b)
    \/ \E b \in Calls : ApplyOperation(b)
    \/ \E b \in Calls : Finish(b)
    \/ ReadImports

SpecTexts == InitStaged /\ [][NextTexts]_vars

\* ------------------------------------------------------------------ claims
\* The step taken last was a call of the forEach callback, for a file whose
\* extension is tracked.
AppliedTo(operations) ==
    /\ last.action = "apply"
    /\ last.operation \in operations
    /\ matchesExtension(last.path)
Upsert == AppliedTo({"create", "change"})
Evict == AppliedTo({"unlink"})

\* What reading `imports` in this state returns.
ImportsRead == imports(modules, paths).modules.value
\* The records of a sequence that were not found in `path`.
Without(records, path) == SelectSeq(records, LAMBDA r : r.path # path)
\* this.modules was set to null by the step taken last.
Marked == count.marks > last.preMarks

\* C1: in every reachable state this.modules is null or is the concatenation of
\* the values of this.paths in the Map's order, so every read of `imports`
\* returns that concatenation.
C1_CacheCoherent ==
    /\ modules.null \/ modules.value = flatten(MapValues(paths))
    /\ ImportsRead = flatten(MapValues(paths))

\* C1 witness: a file was submitted again while the view was computed and not
\* empty, and the view is still computed.
C1_Witness ==
    /\ Upsert /\ last.operation = "change"
    /\ ~last.preModules.null /\ ~modules.null /\ modules.value # <<>>

\* C2: updateImports of a path with the text whose imports the Map already holds
\* for it leaves this.paths and this.modules as they were, and throws nothing.
C2_ResubmitUntouched ==
    (Upsert /\ last.preText # "" /\ last.source = last.preText) =>
        /\ paths = last.prePaths
        /\ modules = last.preModules
        /\ ~Marked
        /\ ~last.error.threw \/ IsFsError(last.error)

\* C2 witness: a file with imports is submitted again unchanged while the view
\* is computed; the view stays computed.
C2_Witness ==
    /\ Upsert /\ last.preText # "" /\ last.source = last.preText
    /\ MapGet(paths, last.path) # <<>>
    /\ ~last.preModules.null /\ ~modules.null

C4_NoRecomputeUnlessStale ==
    /\ count.recomputes <= count.marks
    /\ modules.null => count.recomputes < count.marks
    /\ last.action = "read" =>
          /\ ~modules.null
          /\ ~last.preModules.null => modules = last.preModules

\* C4 witness: a read of a computed view, after one flattening and two nulls.
C4_Witness ==
    /\ last.action = "read" /\ ~last.preModules.null
    /\ count.recomputes = 1 /\ count.marks >= 2

\* The entry of a path in a Map contributes no record.
Zero(map, path) == ~MapHas(map, path) \/ MapGet(map, path) = <<>>

\* C5 as stated: a step for which the old and the new entry of the path both
\* contribute no record never nulls this.modules.
C5_Original ==
    (AppliedTo({"create", "change", "unlink"})
       /\ Zero(last.prePaths, last.path) /\ Zero(paths, last.path)) => ~Marked

\* C5 amended: this.modules is nulled exactly by an updateImports that sets the
\* entry (the path had none, or the extracted sequence differs from the stored
\* one) and by a removeImports that deletes a non-empty entry.
C5_Amended ==
    /\ Marked => modules.null
    /\ Marked <=>
          \/ /\ Upsert
             /\ MapHas(paths, last.path)
             /\ \/ ~MapHas(last.prePaths, last.path)
                \/ MapGet(last.prePaths, last.path) # MapGet(paths, last.path)
          \/ /\ Evict
             /\ MapHas(last.prePaths, last.path)
             /\ MapGet(last.prePaths, last.path) # <<>>

\* C5 witness: the first updateImports of a file yields no import and nulls the
\* computed view.
C5_Witness ==
    /\ Upsert /\ ~MapHas(last.prePaths, last.path)
    /\ MapHas(paths, last.path) /\ MapGet(paths, last.path) = <<>>
    /\ ~last.preModules.null /\ Marked

\* What the parser does with the text of the file the step taken last handled.
Parsed == ParseWith(parse, last.source)
SyntaxRaised == Upsert /\ Parsed.threw /\ Parsed.name = "SyntaxError"
UsageError == Error("Error", UsageMessage)

\* The records of two of the source texts, written out.
BarImport(path) ==
    [isDynamic |-> FALSE, specifier |-> "bar", path |-> path,
     package |-> pack.name, treeType |-> treeType]
BazImport(path) ==
    [isDynamic |-> TRUE, cookedQuasis |-> <<"baz-", "">>,
     expressionNameHints |-> <<"x">>, path |-> path,
     package |-> pack.name, treeType |-> treeType]
Expected(source, path) ==
    IF source = SrcStatic THEN <<BarImport(path)>>
    ELSE <<BarImport(path), BazImport(path)>>

\* C6: when the parser throws a SyntaxError for a tracked file, the file's entry
\* becomes the empty sequence (this.modules is nulled if the entry held
\* records), the error does not reach the caller of build and the forEach goes
\* on with the rest of the patch; a later update of the file with valid text
\* stores the records of that text, and the next read has them.
C6_SyntaxErrorRecoverable ==
    /\ SyntaxRaised =>
          /\ MapHas(paths, last.path) /\ MapGet(paths, last.path) = <<>>
          /\ ~Zero(last.prePaths, last.path) => (modules.null /\ Marked)
          /\ last.error.threw => IsFsError(last.error)
          /\ ~last.error.threw =>
                (pc[last.call] = "applying" /\ patch = Tail(last.prePatch))
    /\ (Upsert /\ last.source \in {SrcStatic, SrcTwo}) =>
          /\ MapHas(paths, last.path)
          /\ MapGet(paths, last.path) = Expected(last.source, last.path)
          /\ SelectSeq(ImportsRead, LAMBDA r : r.path = last.path)
               = Expected(last.source, last.path)

\* C6 witness: a file whose entry was empty because of a SyntaxError is
\* submitted with valid text, and its two records are stored.
C6_Witness ==
    /\ Upsert /\ last.preText = SrcSyntax /\ last.source = SrcTwo
    /\ MapGet(last.prePaths, last.path) = <<>>
    /\ Len(MapGet(paths, last.path)) = 2

\* The texts with a dynamic-import or macro call whose argument is neither a
\* string literal nor a template literal.
BadCallSources == {SrcUsage, SrcMacroUsage}

C8_PropagationNoRollback ==
    /\ (Upsert /\ Parsed.threw /\ Parsed.name # "SyntaxError") =>
          last.error = Error(Parsed.name, Parsed.message)
    /\ (Upsert /\ Parsed.threw /\ Parsed.name = "SyntaxError") =>
          (last.error.threw => IsFsError(last.error))
    /\ (last.action = "apply" /\ last.error.threw) =>
          /\ result[last.call] = Settled("rejected", last.error)
          /\ pc[last.call] = "idle"
          /\ patch = <<>>
    /\ (Upsert /\ last.error.threw /\ ~IsFsError(last.error)) =>
          /\ paths = last.prePaths
          /\ modules = last.preModules
          /\ count.marks = last.preMarks

\* C8 witness: the first build fails on the parser's error at its second
\* tracked file; the entry of the first, stored by the same patch, is there and
\* this.modules is still null.
C8_Witness ==
    /\ Upsert /\ last.error = Error("Error", "internal parser error")
    /\ count.builds = 1
    /\ last.path = "lib/b.js"
    /\ MapHas(paths, "a.js") /\ MapGet(paths, "a.js") # <<>> /\ modules.null

\* The parser of the backend the package selects.
Backend == IF pack.useSwcParser THEN "swc" ELSE "babel7"

\* C9: this.parse starts undefined, is set by the first build that completes
\* setupParser and is never unset or set again: with builds that do not
\* overlap, this.parse is assigned at most once, every operation is applied
\* with the parser of the selected backend, and a later build returns from
\* setupParser without loading anything.
C9_SetupOnce ==
    /\ count.setups <= 1
    /\ parse = "undefined" <=> count.setups = 0
    /\ parse # "undefined" => parse = Backend
    /\ \A b \in Calls : pc[b] \in {"resolved", "applying"} => parse = Backend
    /\ last.action = "setup" => parse = Backend
    /\ (last.action = "build" /\ last.prePatch = <<>> /\ parse # "undefined") =>
          pc[last.call] = "resolved"

\* C9 witness: the second build applies an operation, with one setup so far.
C9_Witness ==
    /\ last.action = "apply" /\ count.builds = 2 /\ count.setups = 1
    /\ result[last.call].status = "pending"

\* The package selects Babel in a version setupParser has no parser for.
Unsupported == ~pack.useSwcParser /\ pack.babelMajorVersion # 7

\* C10: with Babel selected in an unsupported version every build fails in
\* setupParser with an error naming the version and the package; nothing is
\* listed or applied: this.parse stays undefined, previousTree, this.paths,
\* this.modules and the output directory stay as constructed, and the next
\* build goes through setupParser again.
C10_ConfigErrorAborts ==
    /\ (last.action = "build" /\ last.error.threw) =>
          /\ Unsupported
          /\ last.error.name = "Error"
          /\ last.error.message[2] = pack.babelMajorVersion
          /\ last.error.message[4] = pack.name
          /\ result[last.call] = Settled("rejected", last.error)
          /\ pc[last.call] = "idle"
    /\ (Unsupported /\ last.action = "build") => last.error.threw
    /\ Unsupported =>
          /\ parse = "undefined" /\ count.setups = 0
          /\ previousTree = EmptyTree
          /\ paths = <<>> /\ modules = Modules(<<>>) /\ count.marks = 0
          /\ output = {} /\ patch = <<>>
          /\ \A b \in Calls : pc[b] = "idle"

\* C10 witness: the second build over a tree with files fails like the first.
C10_Witness ==
    /\ last.action = "build" /\ last.error.threw /\ count.builds = 2
    /\ input # EmptyTree /\ previousTree = EmptyTree

\* The step taken last was a call of the forEach callback that threw nothing.
AppliedOk == last.action = "apply" /\ ~last.error.threw

\* C11: the forEach applies the operations of the patch in the order
\* calculatePatch gave them, one per call of the callback: the operation applied
\* is the first of those still pending, and when it returns its effects on
\* this.paths and on the output directory are both in place and the rest of
\* the patch is what is pending. A `change` removes the file from the output
\* directory before it reads and parses the input file: when updateImports
\* throws, the output file is gone; when nothing throws, it is there again.
C11_PatchOrder ==
    /\ last.action = "apply" =>
          /\ last.prePatch # <<>>
          /\ <<last.operation, last.path>> = Head(last.prePatch)
    /\ AppliedOk =>
          /\ patch = Tail(last.prePatch)
          /\ pc[last.call] = "applying"
          /\ last.operation \in {"create", "change", "mkdir"} => last.path \in output
          /\ last.operation \in {"unlink", "rmdir"} => last.path \notin output
          /\ Upsert => MapHas(paths, last.path)
          /\ Evict => ~MapHas(paths, last.path)
    /\ (last.action = "apply" /\ pc[last.call] = "applying") => ~last.error.threw
    /\ (Upsert /\ last.operation = "change" /\ last.error.threw
          /\ ~IsFsError(last.error)) => last.path \notin output

\* C11 witness: a `change` whose updateImports threw: the entry of the file is
\* the one of its previous text, and its link in the output directory is gone.
C11_Witness ==
    /\ Upsert /\ last.operation = "change"
    /\ last.error.threw /\ ~IsFsError(last.error)
    /\ MapHas(paths, last.path) /\ last.path \notin output

\* The extension of the path is not one of pack.fileExtensions.
Untracked(path) == slice1(extname(path)) \notin pack.fileExtensions

\* C12: for a path whose extension is not tracked, create, change and unlink
\* leave this.paths and this.modules as they were and throw nothing but what
\* the file system call throws, and the file is still linked into, or removed
\* from, the output directory; mkdir and rmdir leave this.paths and
\* this.modules as they were for every path.
C12_ExtensionGating ==
    /\ (last.action = "apply" /\ last.operation \in {"create", "change", "unlink"}
          /\ Untracked(last.path)) =>
          /\ paths = last.prePaths /\ modules = last.preModules /\ ~Marked
          /\ last.error.threw => IsFsError(last.error)
          /\ (~last.error.threw /\ last.operation \in {"create", "change"}) =>
                last.path \in output
          /\ (~last.error.threw /\ last.operation = "unlink") =>
                last.path \notin output
    /\ (last.action = "apply" /\ last.operation \in {"mkdir", "rmdir"}) =>
          /\ paths = last.prePaths /\ modules = last.preModules /\ ~Marked

\* C12 witness: a text file is created while the view is computed and not
\* empty; it is linked into the output directory and the view stays computed.
C12_Witness ==
    /\ last.action = "apply" /\ last.operation = "create" /\ last.path = "c.txt"
    /\ ~last.error.threw /\ "c.txt" \in output
    /\ ~modules.null /\ modules.value # <<>> /\ paths = last.prePaths

\* The files of a listing whose extension is tracked.
TrackedFiles(tree) == {p \in Files : ~Untracked(p) /\ tree[p] # Absent}

\* C13: as long as no build was rejected, whenever no forEach is running the
\* keys of this.paths are the tracked files of previousTree, each once, and the
\* value of each is what parseImports gives for the text the file had in that
\* listing. Step by step: a create adds the entry, a change sets it only to a
\* sequence that differs from the one stored, an unlink deletes it.
C13_EntryLifecycle ==
    /\ (count.rejected = 0 /\ NoneApplying) =>
          /\ MapKeys(paths) = TrackedFiles(previousTree)
          /\ Len(paths) = Cardinality(MapKeys(paths))
          /\ \A p \in MapKeys(paths) :
                MapGet(paths, p) = parseImports(Self, p, previousTree[p].source).imports
    /\ (Upsert /\ AppliedOk) => MapHas(paths, last.path)
    /\ (Upsert /\ MapHas(last.prePaths, last.path) /\ paths # last.prePaths) =>
          MapGet(paths, last.path) # MapGet(last.prePaths, last.path)
    /\ (Evict /\ AppliedOk) =>
          /\ ~MapHas(paths, last.path)
          /\ previousTree[last.path] = Absent

\* C13 witness: the second of two fulfilled builds has unlinked the only tracked
\* file, whose entry the first had created: no entry is left.
C13_Witness ==
    /\ last.action = "fulfil" /\ count.builds = 2 /\ count.rejected = 0
    /\ paths = <<>> /\ count.marks = 2
    /\ TrackedFiles(previousTree) = {} /\ output = {}

\* The keys of the Map, in its order, and the place of a key in it.
KeysOf(map) == [i \in DOMAIN map |-> map[i][1]]
KeyIndex(map, key) == CHOOSE i \in DOMAIN map : map[i][1] = key

\* C14: what a read of `imports` returns is grouped by path, the paths in the
\* order of the Map's keys and the records of a path as extracted. The order
\* of the keys is the order of insertion: setting the entry of a key that is
\* present changes no key's place, a key that is not present (never there, or
\* deleted before) is appended, a deletion keeps the order of the others, and
\* no other step touches the Map.
C14_InsertionOrder ==
    /\ \A i, j \in DOMAIN ImportsRead :
          i < j => KeyIndex(paths, ImportsRead[i].path) <= KeyIndex(paths, ImportsRead[j].path)
    /\ \A p \in MapKeys(paths) :
          SelectSeq(ImportsRead, LAMBDA r : r.path = p) = MapGet(paths, p)
    /\ (Upsert /\ MapHas(last.prePaths, last.path)) =>
          KeysOf(paths) = KeysOf(last.prePaths)
    /\ (Upsert /\ ~MapHas(last.prePaths, last.path) /\ MapHas(paths, last.path)) =>
          KeysOf(paths) = Append(KeysOf(last.prePaths), last.path)
    /\ Evict =>
          KeysOf(paths) = SelectSeq(KeysOf(last.prePaths), LAMBDA k : k # last.path)
    /\ last.action # "apply" => paths = last.prePaths

\* C14 witness: a.js, whose entry was deleted by an earlier build, is created
\* again while lib/b.js has an entry: a.js comes after lib/b.js in the Map and
\* its records come last in `imports`.
C14_Witness ==
    /\ Upsert /\ last.operation = "create" /\ last.path = "a.js"
    /\ count.evictions["a.js"] >= 1
    /\ KeysOf(paths) = <<"lib/b.js", "a.js">>
    /\ ImportsRead[1].path = "lib/b.js"
    /\ ImportsRead[Len(ImportsRead)].path = "a.js"

\* A record is a literal import or a template import, by its fields.
IsLiteral(r) ==
    /\ "specifier" \in DOMAIN r
    /\ "cookedQuasis" \notin DOMAIN r /\ "expressionNameHints" \notin DOMAIN r
IsTemplate(r) ==
    /\ "specifier" \notin DOMAIN r
    /\ "cookedQuasis" \in DOMAIN r /\ "expressionNameHints" \in DOMAIN r
WellShaped(r) ==
    \/ IsLiteral(r)
    \/ /\ IsTemplate(r)
       /\ Len(r.expressionNameHints) >= 1
       /\ Len(r.cookedQuasis) = Len(r.expressionNameHints) + 1
AllWellShaped(records) == \A i \in DOMAIN records : WellShaped(records[i])

\* C15: every record of this.paths, of this.modules and of a read of `imports`
\* has either `specifier` and neither of cookedQuasis and expressionNameHints,
\* or both of these and no `specifier`; a record with cookedQuasis has at least
\* one name hint and one more quasi than name hints; a template literal without
\* interpolation is stored as a literal import with its one segment as
\* specifier.
C15_RecordShape ==
    /\ AllWellShaped(flatten(MapValues(paths)))
    /\ ~modules.null => AllWellShaped(modules.value)
    /\ AllWellShaped(ImportsRead)
    /\ (Upsert /\ last.source = SrcPlainTemplate /\ ~last.error.threw) =>
          MapGet(paths, last.path) =
            <<[isDynamic |-> TRUE, specifier |-> "qux", path |-> last.path,
               package |-> pack.name, treeType |-> treeType]>>
    /\ (Upsert /\ last.source = SrcTwo /\ ~last.error.threw) =>
          /\ IsLiteral(MapGet(paths, last.path)[1])
          /\ IsTemplate(MapGet(paths, last.path)[2])

\* C15 witness: the text with a template literal that has an interpolation is
\* replaced by the text whose template literal has none; the entry is the one
\* literal import.
C15_Witness ==
    /\ Upsert /\ last.source = SrcPlainTemplate /\ last.preText = SrcTwo
    /\ IsTemplate(MapGet(last.prePaths, last.path)[2])
    /\ Len(MapGet(paths, last.path)) = 1
    /\ IsLiteral(MapGet(paths, last.path)[1])

\* The instance as it would be with the other backend selected and loaded.
SelfAs(swc) ==
    [pack |-> [pack EXCEPT !.useSwcParser = swc, !.babelMajorVersion = 7],
     treeType |-> treeType,
     parse |-> IF swc THEN "swc" ELSE "babel7"]

\* A literal import of the package, written out.
Lit(isDynamic, specifier, path) ==
    [isDynamic |-> isDynamic, specifier |-> specifier, path |-> path,
     package |-> pack.name, treeType |-> treeType]

\* The texts made of import declarations, re-exports and dynamic-import and
\* macro calls at the top level, with a literal argument.
FlatTexts == {SrcStatic, SrcTwo, SrcNone, SrcReexport, SrcPlainTemplate, SrcMacro}

\* C16 as stated: for the same text both backends give the same records, a
\* dynamic-import call one with isDynamic = true and a call of importSync
\* imported from @embroider/macros one with isDynamic = false, and that is what
\* the build stores.
C16_Original ==
    (Upsert /\ last.source \in FlatTexts /\ ~last.error.threw) =>
        /\ parseImports(SelfAs(TRUE), last.path, last.source)
             = parseImports(SelfAs(FALSE), last.path, last.source)
        /\ last.source = SrcMacro =>
              \E i \in DOMAIN MapGet(paths, last.path) :
                 MapGet(paths, last.path)[i] = Lit(FALSE, "pkg", last.path)
        /\ last.source = SrcPlainTemplate =>
              MapGet(paths, last.path) = <<Lit(TRUE, "qux", last.path)>>

\* The records of a text, one for each import declaration, re-export with a
\* source and dynamic-import or macro call in it, in source order.
Complete(source, path) ==
    CASE source = SrcStatic -> <<Lit(FALSE, "bar", path)>>
      [] source = SrcReexport -> <<Lit(FALSE, "dep", path)>>
      [] source = SrcPlainTemplate -> <<Lit(TRUE, "qux", path)>>
      [] source = SrcDeep -> <<Lit(TRUE, "deep", path)>>
      [] source = SrcNested -> <<Lit(TRUE, "inner", path)>>
      [] source = SrcThen -> <<Lit(TRUE, "outer", path), Lit(TRUE, "inner", path)>>
      [] OTHER -> <<>>
\* The texts of declarations and dynamic imports, nested or not (those with a
\* macro call are the matter of C16).
NestingTexts ==
    {SrcStatic, SrcReexport, SrcPlainTemplate, SrcDeep, SrcNested, SrcThen}

\* C17 as stated: under either backend the entry of a file has exactly one
\* record for each import declaration, re-export with a source and
\* dynamic-import call of its text, however deep, a dynamic import in the
\* arguments of another call included, in source order.
C17_Original ==
    (Upsert /\ last.source \in NestingTexts /\ ~last.error.threw) =>
        MapGet(paths, last.path) = Complete(last.source, last.path)

\* updateImports threw: the step taken last was a create or change of a tracked
\* file that ended with an error of the parser or of the extraction.
UpdateThrew == Upsert /\ last.error.threw /\ ~IsFsError(last.error)

\* C18: when updateImports throws (an error of the parser other than a
\* SyntaxError, or the usage error), this.paths has for the path what it had
\* before the call (no entry, or the records of the text the file had when it
\* was last stored) and the same for every other path, and this.modules is the
\* same null or array as before; nothing of what parseImports had collected
\* before it threw is stored.
C18_FailedUpdateUntouched ==
    UpdateThrew =>
        /\ last.error \in {UsageError, Error("Error", "internal parser error")}
        /\ MapHas(paths, last.path) <=> MapHas(last.prePaths, last.path)
        /\ MapHas(paths, last.path) <=> last.preText # ""
        /\ MapHas(paths, last.path) =>
              /\ MapGet(paths, last.path) = MapGet(last.prePaths, last.path)
              /\ MapGet(paths, last.path)
                   = parseImports(Self, last.path, last.preText).imports
        /\ \A q \in MapKeys(last.prePaths) \cup MapKeys(paths) :
              q # last.path =>
                 /\ MapHas(paths, q) /\ MapHas(last.prePaths, q)
                 /\ MapGet(paths, q) = MapGet(last.prePaths, q)
        /\ KeysOf(paths) = KeysOf(last.prePaths)
        /\ modules = last.preModules /\ count.marks = last.preMarks

\* C18 witness: under Babel the change of a file to the text with a macro call
\* of a non-literal argument throws after the import declaration of the text
\* was collected; the entry is still the one record of the previous text, and
\* the view is still computed.
C18_Witness ==
    /\ UpdateThrew /\ last.operation = "change"
    /\ last.source = SrcMacroUsage /\ last.preText = SrcStatic
    /\ MapGet(paths, last.path) = <<BarImport(last.path)>>
    /\ ~modules.null /\ modules.value # <<>>

\* C19: getPatchset sets previousTree to the listing of the input directory
\* before the forEach applies anything, and nothing sets it afterwards: it is
\* that listing during the forEach and after it, whether the build is fulfilled
\* or rejected. The patch is the difference between the snapshot the previous
\* getPatchset left and the listing, so it has operations only for paths that
\* differ from that snapshot: over an input that did not change since a build
\* was rejected it is empty, and the operations that build did not apply are
\* not applied.
C19_SnapshotFirst ==
    /\ last.action = "getPatchset" =>
          /\ previousTree = input
          /\ patch = calculatePatch(last.preTree, input)
          /\ \A i \in DOMAIN patch : last.preTree[patch[i][2]] # input[patch[i][2]]
          /\ last.preTree = input => patch = <<>>
          /\ paths = last.prePaths /\ modules = last.preModules
    /\ last.action \in {"apply", "fulfil"} =>
          /\ previousTree = input
          /\ previousTree = last.preTree

\* C19 witness: the build after one that was rejected on its first operation
\* finds the input as that build listed it: its patch is empty, and the
\* tracked file of the input still has no entry.
C19_Witness ==
    /\ last.action = "getPatchset" /\ count.builds = 2 /\ count.rejected = 1
    /\ last.preTree = input /\ patch = <<>>
    /\ TrackedFiles(input) # {} /\ paths = <<>>

\* The calls of build() whose forEach is under way.
Applying == {b \in Calls : pc[b] = "applying"}

\* C20: a call of build() waits only for setupParser: it is idle, waiting for
\* the parser to load, waiting to resume, or in its forEach. At most one call
\* is in its forEach, and while it is, every step is its own: the step before
\* was its getPatchset or its previous operation, and the operation applied is
\* the first of its pending ones. Whatever the calls in flight, a read of
\* `imports` is the concatenation of the values of this.paths, and each
\* getPatchset computes the difference from the snapshot the getPatchset
\* before it left.
C20_NoInterleaving ==
    /\ \A b \in Calls : pc[b] \in {"idle", "loading", "resolved", "applying"}
    /\ Cardinality(Applying) <= 1
    /\ \A b \in Applying :
          /\ last.call = b
          /\ last.action \in {"getPatchset", "apply"}
    /\ patch # <<>> => Applying # {}
    /\ last.action = "apply" =>
          /\ last.prePatch # <<>>
          /\ <<last.operation, last.path>> = Head(last.prePatch)
          /\ \A b \in Calls \ {last.call} : pc[b] \in {"idle", "loading", "resolved"}
    /\ modules.null \/ modules.value = flatten(MapValues(paths))
    /\ last.action = "getPatchset" =>
          /\ previousTree = input
          /\ patch = calculatePatch(last.preTree, input)

\* C20 witness: the second of two calls, made while the first was in flight,
\* resumes after the first was fulfilled and finds the input as the first
\* listed it: it has nothing to apply.
C20_Witness ==
    /\ last.action = "getPatchset" /\ last.call = 2
    /\ result[1].status = "fulfilled" /\ pc[1] = "idle"
    /\ last.preTree = input /\ patch = <<>>
    /\ paths # <<>>

====
